---- MODULE Spec2Model ----
(***************************************************************************)
(* phantom-audio: the capture loop, the shared sample buffer, the          *)
(* windowing consumer (WhisperWrapper::processLoop), silence trimming and  *)
(* the start/stop command handlers of stdinLoop.                           *)
(*                                                                         *)
(* A std::vector<float> is held run-length encoded: a sequence of runs     *)
(* [lo, hi, a], each standing for the hi - lo consecutive samples that     *)
(* were appended to the stream at positions lo .. hi-1, all of amplitude   *)
(* a (in thousandths of full scale).  The position is the identity of a    *)
(* sample; the amplitude is its float value.  Runs are kept maximal, so    *)
(* two vectors are equal exactly when their encodings are equal.           *)
(***************************************************************************)
EXTENDS Integers, Sequences, FiniteSets, TLC

\* ------------------------------------------------------------------ bounds
MaxPackets == 2      \* non-empty packets the Audio Source delivers
MaxCmds    == 3      \* start/stop commands read from stdin
MaxEvents  == 5      \* commands and packets together

\* ------------------------------------------------------- program constants
SAMPLE_RATE     == 16000   \* whisper_wrapper.h: static constexpr SAMPLE_RATE
m_chunkDuration == 2       \* whisper_wrapper.h: float m_chunkDuration = 2.0f
thresholdMilli  == 10      \* trimSilence: threshold = 0.01f, in thousandths

chunkSamples == m_chunkDuration * SAMPLE_RATE   \* processLoop line 96
overlap      == SAMPLE_RATE \div 2              \* processLoop line 121
windowSize   == SAMPLE_RATE \div 20             \* trimSilence line 215

\* The chunks (size in 16 kHz samples, amplitude) one packet can yield.
Chunks == {[n |-> 4000, a |-> 0], [n |-> 24000, a |-> 1000], [n |-> 56000, a |-> 0]}

Min(a, b) == IF a < b THEN a ELSE b
Max(a, b) == IF a > b THEN a ELSE b
Abs(x)    == IF x < 0 THEN -x ELSE x

\* ------------------------------------------------- std::vector<float> ops
RunLen(r) == r.hi - r.lo

RECURSIVE Size(_)
Size(v) == IF v = <<>> THEN 0 ELSE RunLen(Head(v)) + Size(Tail(v))

\* push one run at the end, keeping runs maximal
PushRun(v, r) ==
  IF RunLen(r) <= 0 THEN v
  ELSE IF v # <<>> /\ v[Len(v)].hi = r.lo /\ v[Len(v)].a = r.a
       THEN [v EXCEPT ![Len(v)].hi = r.hi]
       ELSE Append(v, r)

\* v.insert(v.end(), w.begin(), w.end())
RECURSIVE InsertEnd(_, _)
InsertEnd(v, w) ==
  IF w = <<>> THEN v ELSE InsertEnd(PushRun(v, Head(w)), Tail(w))

\* the first n samples of v: assign(v.begin(), v.begin() + n), resize(n) for n <= size
RECURSIVE FirstN(_, _)
FirstN(v, n) ==
  IF n <= 0 \/ v = <<>> THEN <<>>
  ELSE LET r == Head(v) IN
       IF RunLen(r) <= n
       THEN <<r>> \o FirstN(Tail(v), n - RunLen(r))
       ELSE <<[r EXCEPT !.hi = r.lo + n]>>

\* v.erase(v.begin(), v.begin() + n)
RECURSIVE EraseFront(_, _)
EraseFront(v, n) ==
  IF n <= 0 \/ v = <<>> THEN v
  ELSE LET r == Head(v) IN
       IF RunLen(r) <= n
       THEN EraseFront(Tail(v), n - RunLen(r))
       ELSE <<[r EXCEPT !.lo = r.lo + n]>> \o Tail(v)

\* sum of |samples[j]| for from <= j < to, j < size
RECURSIVE SumAbs(_, _, _)
SumAbs(v, from, to) ==
  IF v = <<>> \/ to <= 0 THEN 0
  ELSE LET n  == RunLen(Head(v))
           ov == Max(0, Min(n, to) - Max(0, from))
       IN Abs(Head(v).a) * ov + SumAbs(Tail(v), from - n, to - n)

\* ------------------------------------------------------------ trimSilence
\* energy = (sum of |samples[j]|, j in [i, i + windowSize)) / windowSize;
\* energy > threshold, both sides multiplied by 1000 * windowSize
EnergyAbove(v, i) == SumAbs(v, i, i + windowSize) > thresholdMilli * windowSize

\* The loops of trimSilence run their iterations k = 0, 1, ... in order and stop
\* at the first one whose window is above the threshold.  FirstHit gives that
\* k among lo .. hi-1, or -1; it looks at the lower half first, so the order is
\* the loop's, and the evaluation depth stays logarithmic.
RECURSIVE FirstHit(_, _, _)
FirstHit(Hit(_), lo, hi) ==
  IF hi <= lo THEN -1
  ELSE IF hi = lo + 1 THEN (IF Hit(lo) THEN lo ELSE -1)
  ELSE LET mid  == (lo + hi) \div 2
           left == FirstHit(Hit, lo, mid)
       IN IF left # -1 THEN left ELSE FirstHit(Hit, mid, hi)

CeilDiv(a, b) == (a + b - 1) \div b

\* for (i = 0; i < size - windowSize; i += windowSize / 2): the number of
\* iterations that can read a sample.  size - windowSize is size_t arithmetic:
\* for size < windowSize it wraps to 2^64 - (windowSize - size) and the loop
\* runs on past the vector, where a window reads nothing (j < samples.size())
\* and its energy is 0.
ForwardIterations(size) ==
  IF size >= windowSize
  THEN CeilDiv(size - windowSize, windowSize \div 2)
  ELSE CeilDiv(size, windowSize \div 2)

\* lines 218-230: the value of start after the forward loop
ScanForward(v, size) ==
  LET Hit(k) == EnergyAbove(v, k * (windowSize \div 2))
      k == FirstHit(Hit, 0, ForwardIterations(size))
      i == k * (windowSize \div 2)
  IN IF k = -1 THEN 0
     ELSE IF i >= windowSize \div 2 THEN i - windowSize \div 2 ELSE 0

\* for (i = size; i > windowSize; i -= windowSize / 2): the number of iterations
BackwardIterations(size) ==
  IF size > windowSize THEN CeilDiv(size - windowSize, windowSize \div 2) ELSE 0

\* lines 233-246: the value of end after the backward loop
ScanBackward(v, size) ==
  LET Hit(k) == EnergyAbove(v, size - k * (windowSize \div 2) - windowSize)
      k == FirstHit(Hit, 0, BackwardIterations(size))
      i == size - k * (windowSize \div 2)
  IN IF k = -1 THEN size
     ELSE Min(i + windowSize \div 2, size)

\* lines 248-254 with end not reduced by the erased prefix
TrimApply_NoEndShift(v, start, end) ==
  LET erased == start < end /\ start > 0
      v1     == IF erased THEN EraseFront(v, start) ELSE v
  IN IF end < Size(v1) THEN FirstN(v1, end) ELSE v1

\* lines 248-254: erase the prefix, shift end, resize
TrimApply(v, start, end) ==
  LET erased == start < end /\ start > 0
      v1     == IF erased THEN EraseFront(v, start) ELSE v
      end1   == IF erased THEN end - start ELSE end
  IN IF end1 < Size(v1) THEN FirstN(v1, end1) ELSE v1

trimSilence(v) ==
  IF v = <<>> THEN v
  ELSE LET size == Size(v)
       IN TrimApply(v, ScanForward(v, size), ScanBackward(v, size))

\* ------------------------------------------------------------------ state
VARIABLES
  cmd_pc,           \* stdinLoop: where the command thread is inside a handler
  ncmds,            \* commands read so far
  lastEvent,        \* the event written to stdout last
  m_capturing,      \* AudioCapture::m_capturing
  m_shouldStop,     \* AudioCapture::m_shouldStop
  cap_pc,           \* captureLoop: position of the capture thread
  captureThreads,   \* capture threads started and not yet returned
  outputSamples,    \* captureLoop: the resampled chunk of the packet in hand
  fmtKnown,         \* m_captureFormat is float, 16-bit or 32-bit PCM
  npackets,         \* non-empty packets the Audio Source has delivered
  fatal,            \* the loop saw GetNextPacketSize or GetBuffer fail
  calledAfterFatal, \* the loop called the Audio Source after that
  m_running,        \* WhisperWrapper::m_running
  m_audioBuffer,    \* WhisperWrapper::m_audioBuffer
  mutex,            \* WhisperWrapper::m_mutex: "free" or its holder
  cons_pc,          \* processLoop: position of the consumer thread
  consumerThreads,  \* consumer threads started and not yet returned
  chunk,            \* processLoop: the local vector chunk
  total,            \* samples appended to the buffer since process start
  session,          \* number of WhisperWrapper::start calls that started a thread
  sessStart,        \* value of total when the current session started
  windows,          \* candidate windows extracted so far, in order
  engineCalls,      \* number of calls of transcribe
  lastText,         \* processLoop: the local string text ("none" outside its scope)
  main_pc,          \* main(): position of the main thread
  startupOk,        \* what main() will find: model path given, capture init, model load
  g_shouldExit,     \* main.cpp: g_shouldExit
  exitCode,         \* value main() returned, -1 while it has not
  readyEvents,      \* ready events written
  mainErrors,       \* error events written by main()
  m_captureFormat,  \* AudioCapture::m_captureFormat: nSamplesPerSec, nChannels
  resampler,        \* captureLoop: the fields of its local AudioResampler
  rsTrace,          \* the process calls of the resampler in its session
  numFramesAvailable, \* captureLoop: frames of the buffer in hand (0 when dead)
  heldBuffer,       \* frames of the buffer the Audio Source has lent, -1 for none
  chunkDurationMs   \* WhisperWrapper::m_chunkDuration as a session finds it, in ms

vars == <<cmd_pc, ncmds, lastEvent, m_capturing, m_shouldStop, cap_pc,
          captureThreads, outputSamples, fmtKnown, npackets, fatal,
          calledAfterFatal, m_running, m_audioBuffer, mutex, cons_pc,
          consumerThreads, chunk, total, session, sessStart, windows,
          engineCalls, lastText, main_pc, startupOk, g_shouldExit, exitCode,
          readyEvents, mainErrors, m_captureFormat, resampler, rsTrace,
          numFramesAvailable, heldBuffer, chunkDurationMs>>

cmdVars  == <<cmd_pc, ncmds, lastEvent>>
capVars  == <<m_capturing, m_shouldStop, cap_pc, captureThreads, outputSamples,
              npackets, fatal, calledAfterFatal>>
consVars == <<cons_pc, consumerThreads, chunk, windows, engineCalls>>
bufVars  == <<m_audioBuffer, mutex, total>>
sessVars == <<m_running, session, sessStart>>
mainVars == <<main_pc, startupOk, g_shouldExit, exitCode, readyEvents, mainErrors>>
rsVars   == <<m_captureFormat, resampler, rsTrace>>
srcVars  == <<numFramesAvailable, heldBuffer>>
cfgVars  == <<chunkDurationMs>>

NoChunk == [n |-> 0, a |-> 0]

\* stdin and the Audio Source have more to deliver
MoreInput == ncmds + npackets < MaxEvents

\* stdinLoop line 59: the test of g_shouldExit before getline; a thread that
\* passes it sits in getline
NextRead == IF g_shouldExit THEN "returned" ELSE "read"

\* main() has written "ready" and sits in the loop of lines 157-159
MainStarted ==
  /\ main_pc = "wait"
  /\ startupOk = [modelPath |-> TRUE, captureInit |-> TRUE, modelLoad |-> TRUE]
  /\ g_shouldExit = FALSE /\ exitCode = -1
  /\ readyEvents = 1 /\ mainErrors = 0

\* The resampler is followed call by call in SpecResample only: elsewhere the
\* chunk a packet yields is taken from Chunks.
NoFormat == [nSamplesPerSec |-> 0, nChannels |-> 0]
NoState  == [m_lastSample |-> 0, m_fractionalPosition |-> 0]
NoTrace  == [session |-> 0, alive |-> FALSE, calls |-> 0, block |-> <<>>,
             output |-> <<>>, stream |-> <<>>, outputs |-> <<>>,
             before |-> NoState, stale |-> NoState]
NoResampler ==
  m_captureFormat = NoFormat /\ resampler = NoState /\ rsTrace = NoTrace

\* setChunkDuration is never called: the initializer of whisper_wrapper.h
DefaultDuration == chunkDurationMs = 1000 * m_chunkDuration

\* no packet in hand: the Audio Source has lent no buffer
NoBuffer == numFramesAvailable = 0 /\ heldBuffer = -1

\* main() has initialised the capture device and loaded the model; stdinLoop
\* is about to read its first command.
Init ==
  /\ cmd_pc = "read" /\ ncmds = 0 /\ lastEvent = "ready"
  /\ m_capturing = FALSE /\ m_shouldStop = FALSE
  /\ cap_pc = "none" /\ captureThreads = 0 /\ outputSamples = NoChunk
  /\ fmtKnown \in BOOLEAN
  /\ npackets = 0 /\ fatal = FALSE /\ calledAfterFatal = FALSE
  /\ m_running = FALSE /\ m_audioBuffer = <<>> /\ mutex = "free"
  /\ cons_pc = "none" /\ consumerThreads = 0 /\ chunk = <<>>
  /\ total = 0 /\ session = 0 /\ sessStart = 0
  /\ windows = <<>> /\ engineCalls = 0
  /\ lastText = "none"
  /\ MainStarted /\ NoResampler /\ NoBuffer /\ DefaultDuration

\* ------------------------------------------------- stdinLoop: start command
\* WhisperWrapper::start without the m_running check
WhisperStart_NoGuard ==
  /\ cmd_pc = "read" /\ ncmds < MaxCmds /\ MoreInput
  /\ mutex = "free"
  /\ m_running' = TRUE
  /\ m_audioBuffer' = <<>>
  /\ consumerThreads' = consumerThreads + 1
  /\ cons_pc' = "while"
  /\ session' = session + 1 /\ sessStart' = total
  /\ ncmds' = ncmds + 1 /\ cmd_pc' = "start_capture"
  /\ UNCHANGED <<lastEvent, mutex, total, chunk, windows, engineCalls>>
  /\ UNCHANGED capVars /\ UNCHANGED fmtKnown
  /\ UNCHANGED lastText /\ UNCHANGED mainVars /\ UNCHANGED rsVars /\ UNCHANGED srcVars /\ UNCHANGED cfgVars

\* WhisperWrapper::start without the clear of lines 59-62
WhisperStart_NoClear ==
  /\ cmd_pc = "read" /\ ncmds < MaxCmds /\ MoreInput
  /\ IF m_running
     THEN UNCHANGED <<m_running, m_audioBuffer, consumerThreads, cons_pc,
                      session, sessStart>>
     ELSE /\ mutex = "free"
          /\ m_running' = TRUE
          /\ UNCHANGED m_audioBuffer
          /\ consumerThreads' = consumerThreads + 1
          /\ cons_pc' = "while"
          /\ session' = session + 1 /\ sessStart' = total
  /\ ncmds' = ncmds + 1 /\ cmd_pc' = "start_capture"
  /\ UNCHANGED <<lastEvent, mutex, total, chunk, windows, engineCalls>>
  /\ UNCHANGED capVars /\ UNCHANGED fmtKnown
  /\ UNCHANGED lastText /\ UNCHANGED mainVars /\ UNCHANGED rsVars /\ UNCHANGED srcVars /\ UNCHANGED cfgVars

\* case Start, lines 65-75: g_whisper->start(callback)
WhisperStart ==
  /\ cmd_pc = "read" /\ ncmds < MaxCmds /\ MoreInput
  /\ IF m_running
     THEN UNCHANGED <<m_running, m_audioBuffer, consumerThreads, cons_pc,
                      session, sessStart>>
     ELSE /\ mutex = "free"
          /\ m_running' = TRUE
          /\ m_audioBuffer' = <<>>
          /\ consumerThreads' = consumerThreads + 1
          /\ cons_pc' = "while"
          /\ session' = session + 1 /\ sessStart' = total
  /\ ncmds' = ncmds + 1 /\ cmd_pc' = "start_capture"
  /\ UNCHANGED <<lastEvent, mutex, total, chunk, windows, engineCalls>>
  /\ UNCHANGED capVars /\ UNCHANGED fmtKnown
  /\ UNCHANGED lastText /\ UNCHANGED mainVars /\ UNCHANGED rsVars /\ UNCHANGED srcVars /\ UNCHANGED cfgVars

\* case Start, lines 77-88: g_audioCapture->start(callback), then the event
CaptureStart ==
  /\ cmd_pc = "start_capture"
  /\ \/ /\ m_capturing                       \* already capturing: return true
        /\ lastEvent' = "started"
        /\ UNCHANGED capVars
     \/ /\ ~m_capturing                      \* m_audioClient->Start() succeeds
        /\ m_shouldStop' = FALSE
        /\ m_capturing' = TRUE
        /\ captureThreads' = captureThreads + 1
        /\ cap_pc' = "loop"
        /\ fatal' = FALSE /\ calledAfterFatal' = FALSE
        /\ lastEvent' = "started"
        /\ UNCHANGED <<outputSamples, npackets>>
     \/ /\ ~m_capturing                      \* m_audioClient->Start() fails
        /\ m_shouldStop' = FALSE
        /\ lastEvent' = "error"
        /\ UNCHANGED <<m_capturing, cap_pc, captureThreads, outputSamples,
                       npackets, fatal, calledAfterFatal>>
  /\ cmd_pc' = NextRead
  /\ UNCHANGED <<ncmds, fmtKnown>>
  /\ UNCHANGED consVars /\ UNCHANGED bufVars /\ UNCHANGED sessVars
  /\ UNCHANGED lastText /\ UNCHANGED mainVars /\ UNCHANGED rsVars /\ UNCHANGED srcVars /\ UNCHANGED cfgVars

\* -------------------------------------------------- stdinLoop: stop command
\* AudioCapture::stop without the m_capturing check
CaptureStopRequest_NoGuard ==
  /\ cmd_pc = "read" /\ ncmds < MaxCmds /\ MoreInput
  /\ ncmds' = ncmds + 1
  /\ m_shouldStop' = TRUE /\ cmd_pc' = "join_capture"
  /\ UNCHANGED <<lastEvent, m_capturing, cap_pc, captureThreads, outputSamples,
                 npackets, fatal, calledAfterFatal, fmtKnown>>
  /\ UNCHANGED consVars /\ UNCHANGED bufVars /\ UNCHANGED sessVars
  /\ UNCHANGED lastText /\ UNCHANGED mainVars /\ UNCHANGED rsVars /\ UNCHANGED srcVars /\ UNCHANGED cfgVars

\* case Stop, lines 94-98: AudioCapture::stop up to the join
CaptureStopRequest ==
  /\ cmd_pc = "read" /\ ncmds < MaxCmds /\ MoreInput
  /\ ncmds' = ncmds + 1
  /\ IF m_capturing
     THEN m_shouldStop' = TRUE /\ cmd_pc' = "join_capture"
     ELSE UNCHANGED m_shouldStop /\ cmd_pc' = "stop_whisper"
  /\ UNCHANGED <<lastEvent, m_capturing, cap_pc, captureThreads, outputSamples,
                 npackets, fatal, calledAfterFatal, fmtKnown>>
  /\ UNCHANGED consVars /\ UNCHANGED bufVars /\ UNCHANGED sessVars
  /\ UNCHANGED lastText /\ UNCHANGED mainVars /\ UNCHANGED rsVars /\ UNCHANGED srcVars /\ UNCHANGED cfgVars

\* AudioCapture::stop going on without waiting for the capture thread
CaptureJoin_NoWait ==
  /\ cmd_pc = "join_capture"
  /\ m_capturing' = FALSE
  /\ cap_pc' = IF cap_pc \in {"none", "done"} THEN "none" ELSE cap_pc
  /\ cmd_pc' = "stop_whisper"
  /\ UNCHANGED <<ncmds, lastEvent, m_shouldStop, captureThreads, outputSamples,
                 npackets, fatal, calledAfterFatal, fmtKnown>>
  /\ UNCHANGED consVars /\ UNCHANGED bufVars /\ UNCHANGED sessVars
  /\ UNCHANGED lastText /\ UNCHANGED mainVars /\ UNCHANGED rsVars /\ UNCHANGED srcVars /\ UNCHANGED cfgVars

\* AudioCapture::stop, lines 135-144: join returns, Stop(), m_capturing = false
CaptureJoin ==
  /\ cmd_pc = "join_capture"
  /\ cap_pc \in {"none", "done"}
  /\ m_capturing' = FALSE
  /\ cap_pc' = "none"
  /\ cmd_pc' = "stop_whisper"
  /\ UNCHANGED <<ncmds, lastEvent, m_shouldStop, captureThreads, outputSamples,
                 npackets, fatal, calledAfterFatal, fmtKnown>>
  /\ UNCHANGED consVars /\ UNCHANGED bufVars /\ UNCHANGED sessVars
  /\ UNCHANGED lastText /\ UNCHANGED mainVars /\ UNCHANGED rsVars /\ UNCHANGED srcVars /\ UNCHANGED cfgVars

\* case Stop, lines 99-103: WhisperWrapper::stop up to the join
WhisperStopRequest ==
  /\ cmd_pc = "stop_whisper"
  /\ IF m_running
     THEN /\ m_running' = FALSE
          /\ cmd_pc' = "join_whisper"
          /\ UNCHANGED lastEvent
     ELSE /\ UNCHANGED m_running
          /\ lastEvent' = "stopped"
          /\ cmd_pc' = NextRead
  /\ UNCHANGED <<ncmds, fmtKnown, session, sessStart>>
  /\ UNCHANGED capVars /\ UNCHANGED consVars /\ UNCHANGED bufVars
  /\ UNCHANGED lastText /\ UNCHANGED mainVars /\ UNCHANGED rsVars /\ UNCHANGED srcVars /\ UNCHANGED cfgVars

\* WhisperWrapper::stop going on without waiting for the consumer thread
WhisperJoin_NoWait ==
  /\ cmd_pc = "join_whisper"
  /\ cons_pc' = IF cons_pc \in {"none", "done"} THEN "none" ELSE cons_pc
  /\ lastEvent' = "stopped"
  /\ cmd_pc' = NextRead
  /\ UNCHANGED <<ncmds, fmtKnown, consumerThreads, chunk, windows,
                 engineCalls>>
  /\ UNCHANGED capVars /\ UNCHANGED bufVars /\ UNCHANGED sessVars
  /\ UNCHANGED lastText /\ UNCHANGED mainVars /\ UNCHANGED rsVars /\ UNCHANGED srcVars /\ UNCHANGED cfgVars

\* WhisperWrapper::stop, lines 76-80: join returns; then sendStopped
WhisperJoin ==
  /\ cmd_pc = "join_whisper"
  /\ cons_pc \in {"none", "done"}
  /\ cons_pc' = "none"
  /\ lastEvent' = "stopped"
  /\ cmd_pc' = NextRead
  /\ UNCHANGED <<ncmds, fmtKnown, consumerThreads, chunk, windows,
                 engineCalls>>
  /\ UNCHANGED capVars /\ UNCHANGED bufVars /\ UNCHANGED sessVars
  /\ UNCHANGED lastText /\ UNCHANGED mainVars /\ UNCHANGED rsVars /\ UNCHANGED srcVars /\ UNCHANGED cfgVars

\* --------------------------------------------------------------- captureLoop
CapExit == cap_pc' = "done" /\ captureThreads' = captureThreads - 1
SourceCall == calledAfterFatal' = (calledAfterFatal \/ fatal)

\* line 160 with a condition that never sees the stop flag
CapLoopCheck_NoStop ==
  /\ cap_pc = "loop"
  /\ cap_pc' = "query" /\ UNCHANGED captureThreads
  /\ UNCHANGED <<m_capturing, m_shouldStop, outputSamples, npackets,
                 fatal, calledAfterFatal, fmtKnown>>
  /\ UNCHANGED cmdVars /\ UNCHANGED consVars /\ UNCHANGED bufVars /\ UNCHANGED sessVars
  /\ UNCHANGED lastText /\ UNCHANGED mainVars /\ UNCHANGED rsVars /\ UNCHANGED srcVars /\ UNCHANGED cfgVars

\* line 160: while (!m_shouldStop.load()), reached at thread start and after Sleep
CapLoopCheck ==
  /\ cap_pc = "loop"
  /\ IF m_shouldStop THEN CapExit ELSE cap_pc' = "query" /\ UNCHANGED captureThreads
  /\ UNCHANGED <<m_capturing, m_shouldStop, outputSamples, npackets,
                 fatal, calledAfterFatal, fmtKnown>>
  /\ UNCHANGED cmdVars /\ UNCHANGED consVars /\ UNCHANGED bufVars /\ UNCHANGED sessVars
  /\ UNCHANGED lastText /\ UNCHANGED mainVars /\ UNCHANGED rsVars /\ UNCHANGED srcVars /\ UNCHANGED cfgVars

\* lines 162-168: GetNextPacketSize at the top of a drain pass
CapQuery ==
  /\ cap_pc = "query"
  /\ SourceCall
  /\ \/ /\ fatal' = TRUE                           \* FAILED(hr): break
        /\ CapExit
     \/ /\ \E packetLength \in {0, 1} :
             cap_pc' = IF packetLength # 0 THEN "getbuf" ELSE "loop"
        /\ UNCHANGED <<fatal, captureThreads>>
  /\ UNCHANGED <<m_capturing, m_shouldStop, outputSamples, npackets, fmtKnown>>
  /\ UNCHANGED cmdVars /\ UNCHANGED consVars /\ UNCHANGED bufVars /\ UNCHANGED sessVars
  /\ UNCHANGED lastText /\ UNCHANGED mainVars /\ UNCHANGED rsVars /\ UNCHANGED srcVars /\ UNCHANGED cfgVars

\* lines 170-222: GetBuffer, conversion to float and resampling of the packet.
\* The resampler's output for the packet is a chunk of n samples of amplitude a;
\* a packet of zero frames or of an unrecognised encoding yields none.
\* The frames of a packet are counted by the samples they resample to.
CapGetBuffer ==
  /\ cap_pc = "getbuf"
  /\ SourceCall
  /\ \/ /\ fatal' = TRUE                           \* FAILED(hr): break (inner loop)
        /\ cap_pc' = "loop"
        /\ UNCHANGED <<outputSamples, npackets>> /\ UNCHANGED srcVars /\ UNCHANGED cfgVars
     \/ /\ cap_pc' = "callback"                    \* numFramesAvailable = 0
        /\ outputSamples' = NoChunk
        /\ numFramesAvailable' = 0 /\ heldBuffer' = 0
        /\ UNCHANGED <<fatal, npackets>>
     \/ /\ \E c \in Chunks :
             /\ outputSamples' = IF fmtKnown THEN c ELSE NoChunk
             /\ numFramesAvailable' = c.n /\ heldBuffer' = c.n
        /\ npackets < MaxPackets /\ MoreInput
        /\ npackets' = npackets + 1
        /\ cap_pc' = "callback"
        /\ UNCHANGED fatal
  /\ UNCHANGED <<m_capturing, m_shouldStop, captureThreads, fmtKnown>>
  /\ UNCHANGED cmdVars /\ UNCHANGED consVars /\ UNCHANGED bufVars /\ UNCHANGED sessVars
  /\ UNCHANGED lastText /\ UNCHANGED mainVars /\ UNCHANGED rsVars /\ UNCHANGED cfgVars

\* lines 219-221 and WhisperWrapper::addAudioChunk
CapCallback ==
  /\ cap_pc = "callback"
  /\ IF outputSamples.n = 0 \/ ~m_running
     THEN UNCHANGED <<m_audioBuffer, total>>
     ELSE /\ mutex = "free"
          /\ m_audioBuffer' = InsertEnd(m_audioBuffer,
                 <<[lo |-> total, hi |-> total + outputSamples.n, a |-> outputSamples.a]>>)
          /\ total' = total + outputSamples.n
  /\ outputSamples' = NoChunk
  /\ cap_pc' = "release"
  /\ UNCHANGED <<m_capturing, m_shouldStop, captureThreads, npackets,
                 fatal, calledAfterFatal, fmtKnown, mutex>>
  /\ UNCHANGED cmdVars /\ UNCHANGED consVars /\ UNCHANGED sessVars
  /\ UNCHANGED lastText /\ UNCHANGED mainVars /\ UNCHANGED rsVars /\ UNCHANGED srcVars /\ UNCHANGED cfgVars

\* lines 226-230 with ReleaseBuffer(0)
CapRelease_Zero ==
  /\ cap_pc = "release"
  /\ SourceCall
  /\ heldBuffer' = IF 0 = heldBuffer THEN -1 ELSE heldBuffer
  /\ numFramesAvailable' = 0
  /\ \/ cap_pc' = "loop"                          \* FAILED(hr): break (inner loop)
     \/ cap_pc' = "query2"
  /\ UNCHANGED <<m_capturing, m_shouldStop, captureThreads, outputSamples,
                 npackets, fatal, fmtKnown>>
  /\ UNCHANGED cmdVars /\ UNCHANGED consVars /\ UNCHANGED bufVars /\ UNCHANGED sessVars
  /\ UNCHANGED lastText /\ UNCHANGED mainVars /\ UNCHANGED rsVars /\ UNCHANGED cfgVars

\* lines 226-230: ReleaseBuffer(numFramesAvailable).  The Audio Source takes the
\* buffer back when the count is the one it lent; numFramesAvailable is not read
\* again before the next GetBuffer writes it.
CapRelease ==
  /\ cap_pc = "release"
  /\ SourceCall
  /\ heldBuffer' = IF numFramesAvailable = heldBuffer THEN -1 ELSE heldBuffer
  /\ numFramesAvailable' = 0
  /\ \/ cap_pc' = "loop"                          \* FAILED(hr): break (inner loop)
     \/ cap_pc' = "query2"
  /\ UNCHANGED <<m_capturing, m_shouldStop, captureThreads, outputSamples,
                 npackets, fatal, fmtKnown>>
  /\ UNCHANGED cmdVars /\ UNCHANGED consVars /\ UNCHANGED bufVars /\ UNCHANGED sessVars
  /\ UNCHANGED lastText /\ UNCHANGED mainVars /\ UNCHANGED rsVars /\ UNCHANGED cfgVars

\* lines 233-237: GetNextPacketSize inside the drain pass
CapQueryNext ==
  /\ cap_pc = "query2"
  /\ SourceCall
  /\ \/ /\ fatal' = TRUE                           \* FAILED(hr): break (inner loop)
        /\ cap_pc' = "loop"
     \/ /\ \E packetLength \in {0, 1} :
             cap_pc' = IF packetLength # 0 THEN "getbuf" ELSE "loop"
        /\ UNCHANGED fatal
  /\ UNCHANGED <<m_capturing, m_shouldStop, captureThreads, outputSamples,
                 npackets, fmtKnown>>
  /\ UNCHANGED cmdVars /\ UNCHANGED consVars /\ UNCHANGED bufVars /\ UNCHANGED sessVars
  /\ UNCHANGED lastText /\ UNCHANGED mainVars /\ UNCHANGED rsVars /\ UNCHANGED srcVars /\ UNCHANGED cfgVars

\* --------------------------------------------------------------- processLoop
ConsExit == cons_pc' = "done" /\ consumerThreads' = consumerThreads - 1

\* line 119: chunk.assign(begin, begin + chunkSamples)
TakeWindow(buf) == FirstN(buf, chunkSamples)

\* lines 121-125 erasing the whole window
KeepOverlap_None(buf) ==
  IF Size(buf) > overlap THEN EraseFront(buf, chunkSamples) ELSE buf

\* lines 121-125 erasing only as much as the overlap
KeepOverlap_Short(buf) ==
  IF Size(buf) > overlap THEN EraseFront(buf, overlap) ELSE buf

\* lines 121-125: keep the overlap
KeepOverlap(buf) ==
  IF Size(buf) > overlap THEN EraseFront(buf, chunkSamples - overlap) ELSE buf

\* line 98: while (m_running.load()); lines 99-102: a fresh chunk, lock the mutex
ConsumerLoop ==
  /\ cons_pc = "while"
  /\ chunk' = <<>> /\ lastText' = "none"
  /\ IF m_running
     THEN /\ mutex = "free" /\ mutex' = "consumer"
          /\ cons_pc' = "wait" /\ UNCHANGED consumerThreads
     ELSE ConsExit /\ UNCHANGED mutex
  /\ UNCHANGED <<windows, engineCalls, m_audioBuffer, total, fmtKnown>>
  /\ UNCHANGED cmdVars /\ UNCHANGED capVars /\ UNCHANGED sessVars
  /\ UNCHANGED mainVars /\ UNCHANGED rsVars /\ UNCHANGED srcVars /\ UNCHANGED cfgVars

\* lines 105-107: wait_for evaluates its predicate with the mutex held; when it is
\* false the thread releases the mutex and blocks
ConsumerWait ==
  /\ cons_pc = "wait"
  /\ IF Size(m_audioBuffer) >= chunkSamples \/ ~m_running
     THEN cons_pc' = "check" /\ UNCHANGED mutex
     ELSE cons_pc' = "blocked" /\ mutex' = "free"
  /\ UNCHANGED <<consumerThreads, chunk, windows, engineCalls,
                 m_audioBuffer, total, fmtKnown>>
  /\ UNCHANGED cmdVars /\ UNCHANGED capVars /\ UNCHANGED sessVars
  /\ UNCHANGED lastText /\ UNCHANGED mainVars /\ UNCHANGED rsVars /\ UNCHANGED srcVars /\ UNCHANGED cfgVars

\* wait_for: woken by a notify (or spuriously), the thread takes the mutex again
\* and evaluates the predicate again
ConsumerWake ==
  /\ cons_pc = "blocked"
  /\ mutex = "free" /\ mutex' = "consumer"
  /\ cons_pc' = "wait"
  /\ UNCHANGED <<consumerThreads, chunk, windows, engineCalls,
                 m_audioBuffer, total, fmtKnown>>
  /\ UNCHANGED cmdVars /\ UNCHANGED capVars /\ UNCHANGED sessVars
  /\ UNCHANGED lastText /\ UNCHANGED mainVars /\ UNCHANGED rsVars /\ UNCHANGED srcVars /\ UNCHANGED cfgVars

\* a wait without timeout: the blocked thread never leaves on its own
ConsumerTimeout_Never ==
  /\ cons_pc = "blocked" /\ FALSE
  /\ UNCHANGED vars

\* wait_for: the 100 ms pass, the thread takes the mutex again and wait_for
\* returns whatever the predicate says
ConsumerTimeout ==
  /\ cons_pc = "blocked"
  /\ mutex = "free" /\ mutex' = "consumer"
  /\ cons_pc' = "check"
  /\ UNCHANGED <<consumerThreads, chunk, windows, engineCalls,
                 m_audioBuffer, total, fmtKnown>>
  /\ UNCHANGED cmdVars /\ UNCHANGED capVars /\ UNCHANGED sessVars
  /\ UNCHANGED lastText /\ UNCHANGED mainVars /\ UNCHANGED rsVars /\ UNCHANGED srcVars /\ UNCHANGED cfgVars

\* lines 109-129 with the lock of line 102 living to the end of the loop body
ConsumerCheck_HoldLock ==
  /\ cons_pc = "check"
  /\ UNCHANGED mutex
  /\ LET n == Size(m_audioBuffer) IN
     IF ~m_running
     THEN IF n > SAMPLE_RATE \div 2
          THEN /\ chunk' = m_audioBuffer
               /\ m_audioBuffer' = <<>>
               /\ windows' = Append(windows,
                     [w |-> m_audioBuffer, kind |-> "salvage", sess |-> session])
               /\ cons_pc' = "process" /\ UNCHANGED consumerThreads
          ELSE /\ ConsExit
               /\ UNCHANGED <<chunk, m_audioBuffer, windows>>
     ELSE IF n >= chunkSamples
          THEN /\ chunk' = TakeWindow(m_audioBuffer)
               /\ m_audioBuffer' = KeepOverlap(m_audioBuffer)
               /\ windows' = Append(windows,
                     [w |-> TakeWindow(m_audioBuffer), kind |-> "full", sess |-> session])
               /\ cons_pc' = "process" /\ UNCHANGED consumerThreads
          ELSE /\ cons_pc' = "while"
               /\ UNCHANGED <<chunk, m_audioBuffer, windows, consumerThreads>>
  /\ UNCHANGED <<engineCalls, total, fmtKnown>>
  /\ UNCHANGED cmdVars /\ UNCHANGED capVars /\ UNCHANGED sessVars
  /\ UNCHANGED lastText /\ UNCHANGED mainVars /\ UNCHANGED rsVars /\ UNCHANGED srcVars /\ UNCHANGED cfgVars

\* lines 109-129, with the mutex held; the mutex is released at the end of the scope
ConsumerCheck ==
  /\ cons_pc = "check"
  /\ mutex' = "free"
  /\ LET n == Size(m_audioBuffer) IN
     IF ~m_running
     THEN IF n > SAMPLE_RATE \div 2
          THEN /\ chunk' = m_audioBuffer
               /\ m_audioBuffer' = <<>>
               /\ windows' = Append(windows,
                     [w |-> m_audioBuffer, kind |-> "salvage", sess |-> session])
               /\ cons_pc' = "process" /\ UNCHANGED consumerThreads
          ELSE /\ ConsExit
               /\ UNCHANGED <<chunk, m_audioBuffer, windows>>
     ELSE IF n >= chunkSamples
          THEN /\ chunk' = TakeWindow(m_audioBuffer)
               /\ m_audioBuffer' = KeepOverlap(m_audioBuffer)
               /\ windows' = Append(windows,
                     [w |-> TakeWindow(m_audioBuffer), kind |-> "full", sess |-> session])
               /\ cons_pc' = "process" /\ UNCHANGED consumerThreads
          ELSE /\ cons_pc' = "while"
               /\ UNCHANGED <<chunk, m_audioBuffer, windows, consumerThreads>>
  /\ UNCHANGED <<engineCalls, total, fmtKnown>>
  /\ UNCHANGED cmdVars /\ UNCHANGED capVars /\ UNCHANGED sessVars
  /\ UNCHANGED lastText /\ UNCHANGED mainVars /\ UNCHANGED rsVars /\ UNCHANGED srcVars /\ UNCHANGED cfgVars

\* line 135: chunk.size() > SAMPLE_RATE / 4
LongEnough(v) == Size(v) > SAMPLE_RATE \div 4

\* lines 131-136: trim the chunk; transcribe it when it is long enough
ConsumerProcess ==
  /\ cons_pc = "process"
  /\ chunk' = IF chunk # <<>> THEN trimSilence(chunk) ELSE chunk
  /\ IF chunk # <<>> /\ LongEnough(chunk')
     THEN cons_pc' = "transcribe" /\ engineCalls' = engineCalls + 1
     ELSE cons_pc' = "while" /\ UNCHANGED engineCalls
  /\ UNCHANGED <<consumerThreads, windows, fmtKnown>>
  /\ UNCHANGED cmdVars /\ UNCHANGED capVars /\ UNCHANGED bufVars /\ UNCHANGED sessVars
  /\ UNCHANGED lastText /\ UNCHANGED mainVars /\ UNCHANGED rsVars /\ UNCHANGED srcVars /\ UNCHANGED cfgVars

\* lines 136-143 with a loop that ends when transcribe returns no text
ConsumerTranscribe_StopOnEmpty ==
  /\ cons_pc = "transcribe"
  /\ \E text \in {"", "text"} :
       /\ lastText' = text
       /\ lastEvent' = IF text # "" THEN "final" ELSE lastEvent
       /\ IF text # "" THEN cons_pc' = "while" /\ UNCHANGED consumerThreads
                       ELSE ConsExit
  /\ UNCHANGED <<cmd_pc, ncmds, chunk, windows, engineCalls, fmtKnown>>
  /\ UNCHANGED capVars /\ UNCHANGED bufVars /\ UNCHANGED sessVars
  /\ UNCHANGED mainVars /\ UNCHANGED rsVars /\ UNCHANGED srcVars /\ UNCHANGED cfgVars

\* lines 136-143: transcribe returns; a non-empty text goes to the callback,
\* which writes a final event
ConsumerTranscribe ==
  /\ cons_pc = "transcribe"
  /\ \E text \in {"", "text"} :
       /\ lastText' = text
       /\ lastEvent' = IF text # "" THEN "final" ELSE lastEvent
  /\ cons_pc' = "while"
  /\ UNCHANGED <<cmd_pc, ncmds, consumerThreads, chunk, windows,
                 engineCalls, fmtKnown>>
  /\ UNCHANGED capVars /\ UNCHANGED bufVars /\ UNCHANGED sessVars
  /\ UNCHANGED mainVars /\ UNCHANGED rsVars /\ UNCHANGED srcVars /\ UNCHANGED cfgVars

\* ------------------------------------------------------------ specification
Next ==
  \/ WhisperStart \/ CaptureStart
  \/ CaptureStopRequest \/ CaptureJoin \/ WhisperStopRequest \/ WhisperJoin
  \/ CapLoopCheck \/ CapQuery \/ CapGetBuffer \/ CapCallback \/ CapRelease
  \/ CapQueryNext
  \/ ConsumerLoop \/ ConsumerWait \/ ConsumerWake \/ ConsumerTimeout
  \/ ConsumerCheck \/ ConsumerProcess \/ ConsumerTranscribe

Spec == Init /\ [][Next]_vars

\* the steps of each thread; CommandStep leaves out reading a new command and
\* ConsumerStep leaves out a wake-up of wait_for before its timeout
CommandStep  == CaptureStart \/ CaptureJoin \/ WhisperStopRequest \/ WhisperJoin
CaptureStep  == \/ CapLoopCheck \/ CapQuery \/ CapGetBuffer \/ CapCallback
                \/ CapRelease \/ CapQueryNext
ConsumerStep == \/ ConsumerLoop \/ ConsumerWait \/ ConsumerTimeout
                \/ ConsumerCheck \/ ConsumerTranscribe
\* the step of ConsumerProcess, told by the position it leaves: trimSilence returns
ProcessReturns == cons_pc = "process" /\ cons_pc' \in {"transcribe", "while"}

\* Scheduling: a thread that can take its next step eventually takes it.  Every
\* call of the Audio Source and of the Transcription Engine returns; the 100 ms
\* of wait_for pass.  Nothing obliges stdin to deliver another command, nor
\* wait_for to be woken before its timeout.
Fairness ==
  /\ WF_vars(CommandStep) /\ WF_vars(CaptureStep)
  /\ WF_vars(ConsumerStep) /\ WF_cons_pc(ProcessReturns)

LiveSpec == Spec /\ Fairness

\* --------------------------------------------- candidate windows, one by one
\* The consumer right after an extraction, for a family of candidate windows:
\* a background of amplitude bg with one burst of amplitude amp at b.  A
\* candidate of chunkSamples samples was extracted while running (the buffer
\* keeps its overlap); a shorter one was salvaged after stop (buffer empty).
MaxSlot == 11

BurstStarts == {2800 * k + d : k \in 0 .. MaxSlot, d \in {0, 1, 399, 2399}}
BurstLens   == {0, 1600, 2400}
BurstAmps   == {11, 1000}
Backgrounds == {0, 9}
TrimSizes   == {8399, 8400, chunkSamples}

Candidate(size, b, len, amp, bg) ==
  InsertEnd(<<>>, << [lo |-> 0, hi |-> b, a |-> bg],
                     [lo |-> b, hi |-> b + len, a |-> amp],
                     [lo |-> b + len, hi |-> size, a |-> bg] >>)

TrimCandidates ==
  { Candidate(size, b, len, amp, bg) :
      size \in TrimSizes, b \in BurstStarts, len \in BurstLens,
      amp \in BurstAmps, bg \in Backgrounds }

InitTrim ==
  /\ chunk \in {c \in TrimCandidates : Size(c) \in TrimSizes}
  /\ LET full == Size(chunk) = chunkSamples IN
     /\ cmd_pc = (IF full THEN "read" ELSE "join_whisper")
     /\ ncmds = (IF full THEN 1 ELSE 2)
     /\ lastEvent = "started"
     /\ m_capturing = full /\ m_shouldStop = ~full
     /\ cap_pc = (IF full THEN "loop" ELSE "none")
     /\ captureThreads = (IF full THEN 1 ELSE 0)
     /\ m_running = full
     /\ m_audioBuffer = (IF full THEN EraseFront(chunk, chunkSamples - overlap) ELSE <<>>)
     /\ windows = << [w |-> chunk, kind |-> (IF full THEN "full" ELSE "salvage"),
                      sess |-> 1] >>
  /\ outputSamples = NoChunk /\ fmtKnown = TRUE /\ npackets = MaxPackets
  /\ fatal = FALSE /\ calledAfterFatal = FALSE
  /\ mutex = "free" /\ cons_pc = "process" /\ consumerThreads = 1
  /\ total = Size(chunk) /\ session = 1 /\ sessStart = 0 /\ engineCalls = 0
  /\ lastText = "none"
  /\ MainStarted /\ NoResampler /\ NoBuffer /\ DefaultDuration

NextTrim == ConsumerProcess \/ ConsumerTranscribe

SpecTrim == InitTrim /\ [][NextTrim]_vars

\* ------------------------------------------------- main(): startup, shutdown
\* sendError and return 1
MainFails ==
  /\ lastEvent' = "error" /\ mainErrors' = mainErrors + 1
  /\ exitCode' = 1 /\ main_pc' = "exited"
  /\ UNCHANGED <<readyEvents, cmd_pc>>

\* lines 125-129: parseModelPath
MainArgs ==
  /\ main_pc = "args"
  /\ IF startupOk.modelPath
     THEN /\ main_pc' = "init_capture"
          /\ UNCHANGED <<lastEvent, mainErrors, exitCode, readyEvents, cmd_pc>>
     ELSE MainFails
  /\ UNCHANGED <<ncmds, startupOk, g_shouldExit>> /\ UNCHANGED capVars
  /\ UNCHANGED consVars /\ UNCHANGED bufVars /\ UNCHANGED sessVars
  /\ UNCHANGED <<fmtKnown, lastText>> /\ UNCHANGED rsVars /\ UNCHANGED srcVars /\ UNCHANGED cfgVars

\* lines 133-139: g_audioCapture->initialize()
MainInitCapture ==
  /\ main_pc = "init_capture"
  /\ IF startupOk.captureInit
     THEN /\ main_pc' = "load_model"
          /\ UNCHANGED <<lastEvent, mainErrors, exitCode, readyEvents, cmd_pc>>
     ELSE MainFails
  /\ UNCHANGED <<ncmds, startupOk, g_shouldExit>> /\ UNCHANGED capVars
  /\ UNCHANGED consVars /\ UNCHANGED bufVars /\ UNCHANGED sessVars
  /\ UNCHANGED <<fmtKnown, lastText>> /\ UNCHANGED rsVars /\ UNCHANGED srcVars /\ UNCHANGED cfgVars

\* lines 142-154 with the result of loadModel ignored
MainLoadModel_IgnoreFailure ==
  /\ main_pc = "load_model"
  /\ lastEvent' = "ready" /\ readyEvents' = readyEvents + 1
  /\ cmd_pc' = NextRead /\ main_pc' = "wait"
  /\ UNCHANGED <<mainErrors, exitCode>>
  /\ UNCHANGED <<ncmds, startupOk, g_shouldExit>> /\ UNCHANGED capVars
  /\ UNCHANGED consVars /\ UNCHANGED bufVars /\ UNCHANGED sessVars
  /\ UNCHANGED <<fmtKnown, lastText>> /\ UNCHANGED rsVars /\ UNCHANGED srcVars /\ UNCHANGED cfgVars

\* lines 142-154: loadModel, sendReady, the stdin thread is created
MainLoadModel ==
  /\ main_pc = "load_model"
  /\ IF startupOk.modelLoad
     THEN /\ lastEvent' = "ready" /\ readyEvents' = readyEvents + 1
          /\ cmd_pc' = NextRead /\ main_pc' = "wait"
          /\ UNCHANGED <<mainErrors, exitCode>>
     ELSE MainFails
  /\ UNCHANGED <<ncmds, startupOk, g_shouldExit>> /\ UNCHANGED capVars
  /\ UNCHANGED consVars /\ UNCHANGED bufVars /\ UNCHANGED sessVars
  /\ UNCHANGED <<fmtKnown, lastText>> /\ UNCHANGED rsVars /\ UNCHANGED srcVars /\ UNCHANGED cfgVars

\* stdinLoop, case Exit, lines 105-108, and the loop test of line 59 after it
ExitCommand ==
  /\ cmd_pc = "read" /\ ncmds < MaxCmds /\ MoreInput
  /\ ncmds' = ncmds + 1
  /\ g_shouldExit' = TRUE
  /\ cmd_pc' = "returned"
  /\ UNCHANGED <<lastEvent, main_pc, startupOk, exitCode, readyEvents, mainErrors>>
  /\ UNCHANGED capVars
  /\ UNCHANGED consVars /\ UNCHANGED bufVars /\ UNCHANGED sessVars
  /\ UNCHANGED <<fmtKnown, lastText>> /\ UNCHANGED rsVars /\ UNCHANGED srcVars /\ UNCHANGED cfgVars

\* stdinLoop line 59: getline fails at the end of stdin
StdinClosed ==
  /\ cmd_pc = "read"
  /\ cmd_pc' = "returned"
  /\ UNCHANGED <<ncmds, lastEvent>> /\ UNCHANGED mainVars /\ UNCHANGED capVars
  /\ UNCHANGED consVars /\ UNCHANGED bufVars /\ UNCHANGED sessVars
  /\ UNCHANGED <<fmtKnown, lastText>> /\ UNCHANGED rsVars /\ UNCHANGED srcVars /\ UNCHANGED cfgVars

\* lines 157-166: the wait loop ends; AudioCapture::stop up to the join
MainWait ==
  /\ main_pc = "wait" /\ g_shouldExit
  /\ IF m_capturing
     THEN m_shouldStop' = TRUE /\ main_pc' = "join_capture"
     ELSE UNCHANGED m_shouldStop /\ main_pc' = "stop_whisper"
  /\ UNCHANGED <<startupOk, g_shouldExit, exitCode, readyEvents, mainErrors>>
  /\ UNCHANGED <<m_capturing, cap_pc, captureThreads, outputSamples, npackets,
                 fatal, calledAfterFatal>>
  /\ UNCHANGED cmdVars
  /\ UNCHANGED consVars /\ UNCHANGED bufVars /\ UNCHANGED sessVars
  /\ UNCHANGED <<fmtKnown, lastText>> /\ UNCHANGED rsVars /\ UNCHANGED srcVars /\ UNCHANGED cfgVars

\* AudioCapture::stop, lines 135-144, called by main()
MainCaptureJoin ==
  /\ main_pc = "join_capture"
  /\ cap_pc \in {"none", "done"}
  /\ m_capturing' = FALSE
  /\ cap_pc' = "none"
  /\ main_pc' = "stop_whisper"
  /\ UNCHANGED <<startupOk, g_shouldExit, exitCode, readyEvents, mainErrors>>
  /\ UNCHANGED <<m_shouldStop, captureThreads, outputSamples, npackets, fatal,
                 calledAfterFatal>>
  /\ UNCHANGED cmdVars
  /\ UNCHANGED consVars /\ UNCHANGED bufVars /\ UNCHANGED sessVars
  /\ UNCHANGED <<fmtKnown, lastText>> /\ UNCHANGED rsVars /\ UNCHANGED srcVars /\ UNCHANGED cfgVars

\* lines 167-169: WhisperWrapper::stop up to the join
MainWhisperStop ==
  /\ main_pc = "stop_whisper"
  /\ IF m_running
     THEN m_running' = FALSE /\ main_pc' = "join_whisper"
     ELSE UNCHANGED m_running /\ main_pc' = "cleanup"
  /\ UNCHANGED <<startupOk, g_shouldExit, exitCode, readyEvents, mainErrors>>
  /\ UNCHANGED <<session, sessStart, fmtKnown, lastText>>
  /\ UNCHANGED cmdVars /\ UNCHANGED capVars /\ UNCHANGED consVars
  /\ UNCHANGED bufVars /\ UNCHANGED rsVars /\ UNCHANGED srcVars /\ UNCHANGED cfgVars

\* WhisperWrapper::stop, lines 76-80, called by main()
MainWhisperJoin ==
  /\ main_pc = "join_whisper"
  /\ cons_pc \in {"none", "done"}
  /\ cons_pc' = "none"
  /\ main_pc' = "cleanup"
  /\ UNCHANGED <<startupOk, g_shouldExit, exitCode, readyEvents, mainErrors>>
  /\ UNCHANGED <<consumerThreads, chunk, windows, engineCalls, fmtKnown, lastText>>
  /\ UNCHANGED cmdVars /\ UNCHANGED capVars /\ UNCHANGED bufVars
  /\ UNCHANGED sessVars /\ UNCHANGED rsVars /\ UNCHANGED srcVars /\ UNCHANGED cfgVars

\* lines 172-184: both objects deleted (their threads are joined already), the
\* stdin thread detached, return 0
MainReturn ==
  /\ main_pc = "cleanup"
  /\ exitCode' = 0 /\ main_pc' = "exited"
  /\ UNCHANGED <<startupOk, g_shouldExit, readyEvents, mainErrors>>
  /\ UNCHANGED cmdVars /\ UNCHANGED capVars
  /\ UNCHANGED consVars /\ UNCHANGED bufVars /\ UNCHANGED sessVars
  /\ UNCHANGED <<fmtKnown, lastText>> /\ UNCHANGED rsVars /\ UNCHANGED srcVars /\ UNCHANGED cfgVars

\* main() is entered; the stdin thread does not exist yet.  SIGINT and SIGTERM
\* are not delivered.
InitMain ==
  /\ main_pc = "args"
  /\ startupOk \in [modelPath : BOOLEAN, captureInit : BOOLEAN, modelLoad : BOOLEAN]
  /\ g_shouldExit = FALSE /\ exitCode = -1
  /\ readyEvents = 0 /\ mainErrors = 0
  /\ cmd_pc = "none" /\ ncmds = 0 /\ lastEvent = "none"
  /\ m_capturing = FALSE /\ m_shouldStop = FALSE
  /\ cap_pc = "none" /\ captureThreads = 0 /\ outputSamples = NoChunk
  /\ fmtKnown \in BOOLEAN
  /\ npackets = 0 /\ fatal = FALSE /\ calledAfterFatal = FALSE
  /\ m_running = FALSE /\ m_audioBuffer = <<>> /\ mutex = "free"
  /\ cons_pc = "none" /\ consumerThreads = 0 /\ chunk = <<>>
  /\ total = 0 /\ session = 0 /\ sessStart = 0
  /\ windows = <<>> /\ engineCalls = 0
  /\ lastText = "none"
  /\ NoResampler /\ NoBuffer /\ DefaultDuration

NextMain ==
  \/ MainArgs \/ MainInitCapture \/ MainLoadModel
  \/ ExitCommand \/ StdinClosed
  \/ MainWait \/ MainCaptureJoin \/ MainWhisperStop \/ MainWhisperJoin
  \/ MainReturn
  \/ Next

SpecMain == InitMain /\ [][NextMain]_vars

\* ------------------------------------------------ the resampler of a session
\* captureLoop builds an AudioResampler when it is entered and hands it every
\* non-empty packet.  A float sample is held in units of 2^-10 of full scale and
\* a position in units of 1 / RatioDen frames; for the rates of Rates the ratio
\* has a power of two as denominator, so the double and float arithmetic of
\* process is exact on these values and integer arithmetic gives its results.
MaxFrames   == 3      \* frames the Audio Source delivers in one session
MaxSessions == 2      \* runs of captureLoop

outputSampleRate == 16000   \* audio_capture.h: m_outputFormat.sampleRate
Rates        == {8000, 16000, 24000, 48000}
Channels     == {1, 2}
SampleValues == {0, 512}

RECURSIVE GCD(_, _)
GCD(a, b) == IF b = 0 THEN a ELSE GCD(b, a % b)

m_inputSampleRate == m_captureFormat.nSamplesPerSec
m_inputChannels   == m_captureFormat.nChannels
\* m_ratio = inputSampleRate / outputSampleRate, as RatioNum / RatioDen
RatioNum == m_inputSampleRate \div GCD(m_inputSampleRate, outputSampleRate)
RatioDen == outputSampleRate \div GCD(m_inputSampleRate, outputSampleRate)

\* sum of input[i * m_inputChannels + ch] for ch < n (i counted from 0)
RECURSIVE ChannelSum(_, _, _)
ChannelSum(input, i, n) ==
  IF n = 0 THEN 0
  ELSE ChannelSum(input, i, n - 1) + input[i * m_inputChannels + n]

\* lines 23-34: the mono vector
Mono(input, numFrames) ==
  [i \in 1 .. numFrames |->
     IF m_inputChannels = 1 THEN input[i]
     ELSE ChannelSum(input, i - 1, m_inputChannels) \div m_inputChannels]

\* lines 50-62: the while loop, from position on
RECURSIVE Interpolate(_, _, _, _)
Interpolate(mono, numFrames, position, output) ==
  IF position >= numFrames * RatioDen
  THEN [output |-> output, position |-> position]
  ELSE LET index         == position \div RatioDen
           frac          == position % RatioDen
           currentSample == mono[index + 1]
           nextSample    == IF index + 1 < numFrames THEN mono[index + 2]
                                                     ELSE currentSample
           interpolated  == (currentSample * (RatioDen - frac) + nextSample * frac)
                              \div RatioDen
       IN Interpolate(mono, numFrames, position + RatioNum,
                      Append(output, interpolated))

\* AudioResampler::process with line 68 storing the read position itself
process_KeepPosition(st, input, numFrames) ==
  IF numFrames = 0 THEN [output |-> <<>>, state |-> st]
  ELSE LET mono == Mono(input, numFrames)
           r    == Interpolate(mono, numFrames, st.m_fractionalPosition, <<>>)
       IN IF m_inputSampleRate = outputSampleRate
          THEN [output |-> mono, state |-> st]
          ELSE [output |-> r.output,
                state  |-> [m_lastSample         |-> mono[numFrames],
                            m_fractionalPosition |-> r.position]]

\* AudioResampler::process with every call starting at position 0
process_DropPhase(st, input, numFrames) ==
  IF numFrames = 0 THEN [output |-> <<>>, state |-> st]
  ELSE LET mono == Mono(input, numFrames)
           r    == Interpolate(mono, numFrames, 0, <<>>)
       IN IF m_inputSampleRate = outputSampleRate
          THEN [output |-> mono, state |-> st]
          ELSE [output |-> r.output,
                state  |-> [m_lastSample         |-> mono[numFrames],
                            m_fractionalPosition |-> r.position - numFrames * RatioDen]]

\* AudioResampler::process without the return of lines 37-39
process_NoShortcut(st, input, numFrames) ==
  IF numFrames = 0 THEN [output |-> <<>>, state |-> st]
  ELSE LET mono == Mono(input, numFrames)
           r    == Interpolate(mono, numFrames, st.m_fractionalPosition, <<>>)
       IN [output |-> r.output,
           state  |-> [m_lastSample         |-> mono[numFrames],
                       m_fractionalPosition |-> r.position - numFrames * RatioDen]]

\* AudioResampler::process on a resampler in state st: the vector returned and
\* the state left
process(st, input, numFrames) ==
  IF numFrames = 0 THEN [output |-> <<>>, state |-> st]
  ELSE LET mono == Mono(input, numFrames)
           r    == Interpolate(mono, numFrames, st.m_fractionalPosition, <<>>)
       IN IF m_inputSampleRate = outputSampleRate
          THEN [output |-> mono, state |-> st]
          ELSE [output |-> r.output,
                state  |-> [m_lastSample         |-> mono[numFrames],
                            m_fractionalPosition |-> r.position - numFrames * RatioDen]]

\* the interleaved blocks of numFrames frames
Inputs(numFrames) == [1 .. numFrames * m_inputChannels -> SampleValues]

\* frames of the session handed to process so far
FramesSeen == Len(rsTrace.stream) \div m_inputChannels

\* captureLoop entered with the storage of its local keeping the last values
ResamplerCreate_Reuse ==
  /\ ~rsTrace.alive /\ rsTrace.session < MaxSessions
  /\ resampler' = resampler
  /\ rsTrace' = [NoTrace EXCEPT !.session = rsTrace.session + 1, !.alive = TRUE,
                                !.stale = resampler]
  /\ UNCHANGED m_captureFormat
  /\ UNCHANGED cmdVars /\ UNCHANGED capVars /\ UNCHANGED consVars
  /\ UNCHANGED bufVars /\ UNCHANGED sessVars /\ UNCHANGED mainVars
  /\ UNCHANGED <<fmtKnown, lastText>> /\ UNCHANGED srcVars /\ UNCHANGED cfgVars

\* captureLoop lines 147-153: the constructor runs on entry
ResamplerCreate ==
  /\ ~rsTrace.alive /\ rsTrace.session < MaxSessions
  /\ resampler' = NoState
  /\ rsTrace' = [NoTrace EXCEPT !.session = rsTrace.session + 1, !.alive = TRUE,
                                !.stale = resampler]
  /\ UNCHANGED m_captureFormat
  /\ UNCHANGED cmdVars /\ UNCHANGED capVars /\ UNCHANGED consVars
  /\ UNCHANGED bufVars /\ UNCHANGED sessVars /\ UNCHANGED mainVars
  /\ UNCHANGED <<fmtKnown, lastText>> /\ UNCHANGED srcVars /\ UNCHANGED cfgVars

\* captureLoop lines 211-216: a non-empty packet goes through process
ResamplerProcess ==
  /\ rsTrace.alive
  /\ \E numFrames \in 1 .. (MaxFrames - FramesSeen) :
       \E input \in Inputs(numFrames) :
         LET r == process(resampler, input, numFrames) IN
         /\ resampler' = r.state
         /\ rsTrace' = [rsTrace EXCEPT !.calls   = @ + 1,
                                       !.block   = input,
                                       !.output  = r.output,
                                       !.stream  = @ \o input,
                                       !.outputs = @ \o r.output,
                                       !.before  = resampler]
  /\ UNCHANGED m_captureFormat
  /\ UNCHANGED cmdVars /\ UNCHANGED capVars /\ UNCHANGED consVars
  /\ UNCHANGED bufVars /\ UNCHANGED sessVars /\ UNCHANGED mainVars
  /\ UNCHANGED <<fmtKnown, lastText>> /\ UNCHANGED srcVars /\ UNCHANGED cfgVars

\* captureLoop returns: the local goes out of scope, nothing clears its storage
CaptureLoopReturn ==
  /\ rsTrace.alive
  /\ rsTrace' = [rsTrace EXCEPT !.alive = FALSE]
  /\ UNCHANGED <<m_captureFormat, resampler>>
  /\ UNCHANGED cmdVars /\ UNCHANGED capVars /\ UNCHANGED consVars
  /\ UNCHANGED bufVars /\ UNCHANGED sessVars /\ UNCHANGED mainVars
  /\ UNCHANGED <<fmtKnown, lastText>> /\ UNCHANGED srcVars /\ UNCHANGED cfgVars

\* initialize() has stored the mix format of the device; no session yet
InitResample ==
  /\ cmd_pc = "read" /\ ncmds = 0 /\ lastEvent = "ready"
  /\ m_capturing = FALSE /\ m_shouldStop = FALSE
  /\ cap_pc = "none" /\ captureThreads = 0 /\ outputSamples = NoChunk
  /\ fmtKnown = TRUE
  /\ npackets = 0 /\ fatal = FALSE /\ calledAfterFatal = FALSE
  /\ m_running = FALSE /\ m_audioBuffer = <<>> /\ mutex = "free"
  /\ cons_pc = "none" /\ consumerThreads = 0 /\ chunk = <<>>
  /\ total = 0 /\ session = 0 /\ sessStart = 0
  /\ windows = <<>> /\ engineCalls = 0
  /\ lastText = "none"
  /\ MainStarted
  /\ m_captureFormat \in [nSamplesPerSec : Rates, nChannels : Channels]
  /\ resampler = NoState /\ rsTrace = NoTrace
  /\ NoBuffer /\ DefaultDuration

NextResample == ResamplerCreate \/ ResamplerProcess \/ CaptureLoopReturn

SpecResample == InitResample /\ [][NextResample]_vars

\* ------------------------------------------------------ SIGINT and SIGTERM
\* main() has begun the shutdown of lines 163-176
Teardown == main_pc \in {"join_capture", "stop_whisper", "join_whisper", "cleanup"}

\* the command thread is inside the start or the stop handler
InHandler == cmd_pc \in {"start_capture", "join_capture", "stop_whisper", "join_whisper"}

\* signalHandler, lines 41-44
SignalHandler ==
  /\ ~g_shouldExit
  /\ g_shouldExit' = TRUE
  /\ UNCHANGED <<main_pc, startupOk, exitCode, readyEvents, mainErrors>>
  /\ UNCHANGED cmdVars /\ UNCHANGED capVars /\ UNCHANGED consVars
  /\ UNCHANGED bufVars /\ UNCHANGED sessVars
  /\ UNCHANGED <<fmtKnown, lastText>> /\ UNCHANGED rsVars
  /\ UNCHANGED srcVars /\ UNCHANGED cfgVars

\* The process ends when main() returns.  With both threads inside calls on the
\* objects main() is stopping and deleting, the accesses race and the behaviour
\* is undefined: it is followed no further.
Live == main_pc # "exited" /\ ~(Teardown /\ InHandler)

NextSignal ==
  \/ Live /\ SignalHandler
  \/ Live /\ MainArgs
  \/ Live /\ MainInitCapture
  \/ Live /\ MainLoadModel
  \/ Live /\ ExitCommand
  \/ Live /\ StdinClosed
  \/ Live /\ MainWait
  \/ Live /\ MainCaptureJoin
  \/ Live /\ MainWhisperStop
  \/ Live /\ MainWhisperJoin
  \/ Live /\ MainReturn
  \/ Live /\ WhisperStart
  \/ Live /\ CaptureStart
  \/ Live /\ CaptureStopRequest
  \/ Live /\ CaptureJoin
  \/ Live /\ WhisperStopRequest
  \/ Live /\ WhisperJoin
  \/ Live /\ CapLoopCheck
  \/ Live /\ CapQuery
  \/ Live /\ CapGetBuffer
  \/ Live /\ CapCallback
  \/ Live /\ CapRelease
  \/ Live /\ CapQueryNext
  \/ Live /\ ConsumerLoop
  \/ Live /\ ConsumerWait
  \/ Live /\ ConsumerWake
  \/ Live /\ ConsumerTimeout
  \/ Live /\ ConsumerCheck
  \/ Live /\ ConsumerProcess
  \/ Live /\ ConsumerTranscribe

SpecSignal == InitMain /\ [][NextSignal]_vars

\* ---------------------------------------- a session after setChunkDuration
\* setChunkDuration stores any float.  A session that starts afterwards runs
\* processLoop with chunkSamples = m_chunkDuration * SAMPLE_RATE (line 96).
MaxPasses == 3        \* extractions followed in one session

Durations == {250, 500, 1000, 2000}      \* ms handed to setChunkDuration

\* line 96: static_cast<size_t>(m_chunkDuration * SAMPLE_RATE)
ChunkSamplesNow == (chunkDurationMs * SAMPLE_RATE) \div 1000

\* lines 121-125 for chunkSamples = cs: what the buffer can be afterwards.  For
\* cs < overlap the count chunkSamples - overlap wraps around as a size_t and
\* erase gets an end iterator that is not in the vector: undefined, the buffer
\* may be left as it was, without the window, or empty.
ErasedBuffers(buf, cs) ==
  IF Size(buf) > overlap
  THEN IF cs >= overlap THEN {EraseFront(buf, cs - overlap)}
       ELSE {buf, EraseFront(buf, cs), <<>>}
  ELSE {buf}

\* the capture thread goes through one packet: addAudioChunk appends its chunk
DurationAppend ==
  /\ m_running /\ npackets < MaxPackets /\ MoreInput
  /\ \E c \in Chunks :
       /\ m_audioBuffer' = InsertEnd(m_audioBuffer,
              <<[lo |-> total, hi |-> total + c.n, a |-> c.a]>>)
       /\ total' = total + c.n
  /\ npackets' = npackets + 1
  /\ UNCHANGED <<m_capturing, m_shouldStop, cap_pc, captureThreads, outputSamples,
                 fatal, calledAfterFatal, fmtKnown, mutex, lastText>>
  /\ UNCHANGED cmdVars /\ UNCHANGED consVars /\ UNCHANGED sessVars
  /\ UNCHANGED mainVars /\ UNCHANGED rsVars /\ UNCHANGED srcVars /\ UNCHANGED cfgVars

\* processLoop lines 98-144, one turn of the loop of the running wrapper that
\* finds chunkSamples samples: the extraction, trimSilence, transcribe, callback
DurationPass ==
  /\ cons_pc = "while" /\ m_running /\ mutex = "free"
  /\ Len(windows) < MaxPasses
  /\ Size(m_audioBuffer) >= ChunkSamplesNow
  /\ LET w == FirstN(m_audioBuffer, ChunkSamplesNow)
         t == IF w # <<>> THEN trimSilence(w) ELSE w
     IN /\ m_audioBuffer' \in ErasedBuffers(m_audioBuffer, ChunkSamplesNow)
        /\ windows' = Append(windows, [w |-> w, kind |-> "full", sess |-> session])
        /\ IF w # <<>> /\ LongEnough(t)
           THEN /\ engineCalls' = engineCalls + 1
                /\ \E text \in {"", "text"} :
                     lastEvent' = IF text # "" THEN "final" ELSE lastEvent
           ELSE UNCHANGED <<engineCalls, lastEvent>>
  /\ UNCHANGED <<cmd_pc, ncmds, cons_pc, consumerThreads, chunk, lastText,
                 mutex, total, fmtKnown>>
  /\ UNCHANGED capVars /\ UNCHANGED sessVars
  /\ UNCHANGED mainVars /\ UNCHANGED rsVars /\ UNCHANGED srcVars /\ UNCHANGED cfgVars

\* setChunkDuration(d) was called, then a start command was handled: both
\* threads run and nothing was captured yet
InitDuration ==
  /\ chunkDurationMs \in Durations
  /\ cmd_pc = "read" /\ ncmds = 1 /\ lastEvent = "started"
  /\ m_capturing = TRUE /\ m_shouldStop = FALSE
  /\ cap_pc = "loop" /\ captureThreads = 1 /\ outputSamples = NoChunk
  /\ fmtKnown = TRUE
  /\ npackets = 0 /\ fatal = FALSE /\ calledAfterFatal = FALSE
  /\ m_running = TRUE /\ m_audioBuffer = <<>> /\ mutex = "free"
  /\ cons_pc = "while" /\ consumerThreads = 1 /\ chunk = <<>>
  /\ total = 0 /\ session = 1 /\ sessStart = 0
  /\ windows = <<>> /\ engineCalls = 0
  /\ lastText = "none"
  /\ MainStarted /\ NoResampler /\ NoBuffer

NextDuration == DurationAppend \/ DurationPass

SpecDuration == InitDuration /\ [][NextDuration]_vars

\* ===================================================================== claims
\* Vectors as the claims speak of them: by positions, not by the operations of
\* the code.

\* number of samples before run k
RECURSIVE Offset(_, _)
Offset(v, k) == IF k <= 1 THEN 0 ELSE Offset(v, k - 1) + (v[k - 1].hi - v[k - 1].lo)

\* the samples of v at positions from .. to-1 (0-based)
Slice(v, from, to) ==
  LET cut == [k \in 1 .. Len(v) |->
                LET o == Offset(v, k) IN
                [lo |-> v[k].lo + Max(0, from - o),
                 hi |-> v[k].lo + Min(v[k].hi - v[k].lo, to - o),
                 a  |-> v[k].a]]
  IN SelectSeq(cut, LAMBDA r : r.hi > r.lo)

Length(v)   == Offset(v, Len(v) + 1)
FirstPos(v) == v[1].lo
EndPos(v)   == v[Len(v)].hi
\* the samples of v are consecutive samples of the stream
Ascending(v) == \A k \in 1 .. Len(v) - 1 : v[k].hi = v[k + 1].lo

\* the consumer leaves line 109-128 in this step
CheckStep == cons_pc = "check" /\ cons_pc' # "check"
\* the consumer leaves lines 131-136 in this step
ProcessStep == cons_pc = "process" /\ cons_pc' # "process"

\* -- C1 ----------------------------------------------------------------------
\* C1: while running, the consumer extracts a window only when the buffer holds
\* at least 32000 samples; the window is the first 32000 samples of the buffer,
\* the buffer afterwards is the old buffer without its first 24000 samples, and
\* the last 8000 samples of such a window are the first 8000 of the next window
\* of the session.
C1_Overlap ==
  \A k \in 1 .. Len(windows) - 1 :
    (windows[k].kind = "full" /\ windows[k + 1].sess = windows[k].sess)
      => Slice(windows[k].w, 24000, 32000) = Slice(windows[k + 1].w, 0, 8000)

C1_Extraction ==
  [][ /\ (CheckStep /\ m_running) =>
          IF cons_pc' = "process"
          THEN /\ Length(m_audioBuffer) >= 32000
               /\ chunk' = Slice(m_audioBuffer, 0, 32000)
               /\ m_audioBuffer' = Slice(m_audioBuffer, 24000, Length(m_audioBuffer))
          ELSE /\ Length(m_audioBuffer) < 32000
               /\ m_audioBuffer' = m_audioBuffer
      /\ C1_Overlap' ]_vars

\* a running extraction has happened and the session's next window was taken
C1_Witness ==
  /\ Len(windows) >= 2
  /\ windows[1].kind = "full" /\ windows[2].sess = windows[1].sess
  /\ Length(windows[1].w) = 32000

\* -- C2 ----------------------------------------------------------------------
\* the windows of the current session
SessionWindows == SelectSeq(windows, LAMBDA x : x.sess = session)

\* the stream position up to which the session's windows cover the stream
Covered ==
  IF SessionWindows = <<>> THEN sessStart
  ELSE EndPos(SessionWindows[Len(SessionWindows)].w)

\* the windows of the session, each without what it shares with its
\* predecessor, are consecutive pieces of the stream from the session's start
Reconstructs ==
  LET ws == SessionWindows IN
  \A k \in 1 .. Len(ws) :
    /\ Ascending(ws[k].w)
    /\ IF k = 1 THEN FirstPos(ws[k].w) = sessStart
       ELSE FirstPos(ws[k].w) = EndPos(ws[k - 1].w) - 8000

\* C2: when the consumer has exited, the non-overlapping portions of the
\* session's windows reconstruct the appended stream in order, and what is
\* missing at the end is shorter than the salvage threshold (8000).
C2_Reconstruction ==
  cons_pc = "done" => (Reconstructs /\ total - Covered < 8000)

\* -- C3 ----------------------------------------------------------------------
\* C3: samples are consumed in the order they were appended, and every sample
\* is in at most two windows, which are consecutive and share at most the
\* 8000-sample overlap.
C3_FifoAtMostTwo ==
  /\ \A k \in 1 .. Len(windows) : Ascending(windows[k].w)
  /\ \A k \in 1 .. Len(windows) - 1 :
       /\ FirstPos(windows[k].w) < FirstPos(windows[k + 1].w)
       /\ EndPos(windows[k].w) <= EndPos(windows[k + 1].w)
       /\ EndPos(windows[k].w) - FirstPos(windows[k + 1].w) <= 8000
  /\ \A j, k \in 1 .. Len(windows) :
       k >= j + 2 => EndPos(windows[j].w) <= FirstPos(windows[k].w)

\* three windows of one session, the last one salvaged at stop
C3_Witness ==
  /\ Len(windows) >= 3
  /\ windows[1].sess = windows[3].sess
  /\ windows[3].kind = "salvage"
  /\ FirstPos(windows[2].w) < EndPos(windows[1].w)

\* -- C4 ----------------------------------------------------------------------
\* C4: when the consumer finds stop requested with N samples buffered, N >= 8000
\* drains the whole buffer as the final candidate and empties the buffer; N < 8000
\* produces no candidate.
C4_Salvage ==
  [][ (CheckStep /\ ~m_running) =>
        IF Length(m_audioBuffer) >= 8000
        THEN /\ cons_pc' = "process"
             /\ chunk' = m_audioBuffer
             /\ m_audioBuffer' = <<>>
        ELSE /\ cons_pc' = "done"
             /\ chunk' = <<>> ]_vars

\* -- C5 ----------------------------------------------------------------------
\* C5: in every interleaving of stop with the consumer, the consumer has, when
\* it exits, either seen "stopped and fewer than 8000 samples buffered" or made
\* exactly one salvage extraction: it never exits with 8000 or more samples
\* left in the buffer.
C5_ExitAfterSalvage ==
  cons_pc = "done" =>
    /\ Length(m_audioBuffer) < 8000
    /\ Cardinality({k \in 1 .. Len(windows) :
          windows[k].sess = session /\ windows[k].kind = "salvage"}) <= 1

\* -- C6 ----------------------------------------------------------------------
\* C6: a trimmed candidate goes to the Transcription Engine if and only if it
\* has at least 4000 samples.
C6_Floor ==
  [][ ProcessStep => (cons_pc' = "transcribe" <=> Length(chunk') >= 4000) ]_vars

\* -- C7 ----------------------------------------------------------------------
\* mean absolute amplitude of the 800 samples of v from position i, times 800
RECURSIVE SumRuns(_)
SumRuns(v) ==
  IF v = <<>> THEN 0
  ELSE (IF Head(v).a < 0 THEN -Head(v).a ELSE Head(v).a) * (Head(v).hi - Head(v).lo)
       + SumRuns(Tail(v))
Loud(v, i) == SumRuns(Slice(v, i, i + 800)) > 10 * 800

\* no 800-sample analysis window, at any step of 400, is above the threshold
AllSilent(v) ==
  \A k \in 0 .. (Length(v) \div 400) : ~Loud(v, 400 * k) /\ ~Loud(v, Length(v) - 400 * k - 800)

\* C7: an all-silent candidate is trimmed to length zero and the engine is not
\* invoked for it.
C7_SilentDropped ==
  [][ (ProcessStep /\ AllSilent(chunk)) =>
        (Length(chunk') = 0 /\ cons_pc' # "transcribe") ]_vars

\* -- C8 ----------------------------------------------------------------------
\* v has 32000 samples and run k is a burst of 1600 samples above the threshold
\* strictly inside it, every other sample being at or below the threshold
BurstAt(v, k) ==
  /\ Length(v) = 32000
  /\ k \in 1 .. Len(v)
  /\ v[k].a > 10 /\ v[k].hi - v[k].lo = 1600
  /\ Offset(v, k) > 0 /\ Offset(v, k) + 1600 < 32000
  /\ \A j \in 1 .. Len(v) : j # k => (v[j].a <= 10 /\ v[j].a >= -10)
SingleBurst(v) == \E k \in 1 .. Len(v) : BurstAt(v, k)
BurstStart(v)  == Offset(v, CHOOSE k \in 1 .. Len(v) : BurstAt(v, k))

\* starts of the analysis windows above the threshold, scanning forward
ForwardLoud(v)  == {i \in {400 * k : k \in 0 .. 79} : i < Length(v) - 800 /\ Loud(v, i)}
\* ends of the analysis windows above the threshold, scanning backward
BackwardLoud(v) == {i \in {Length(v) - 400 * k : k \in 0 .. 79} : i > 800 /\ Loud(v, i - 800)}
Lowest(S)  == CHOOSE x \in S : \A y \in S : x <= y
Highest(S) == CHOOSE x \in S : \A y \in S : x >= y

\* C8: for a 32000-sample candidate with one 1600-sample burst in its interior,
\* trimSilence leaves the slice [s, e): s is the start of the first window above
\* the threshold scanning forward minus 400 (at least 0), e the end of the first
\* one scanning backward plus 400 (at most the length); the slice holds the
\* whole burst, its samples unmodified and in order.
C8_BurstKept ==
  [][ (ProcessStep /\ SingleBurst(chunk)) =>
        /\ ForwardLoud(chunk) # {} /\ BackwardLoud(chunk) # {}
        /\ LET s == Max(0, Lowest(ForwardLoud(chunk)) - 400)
               e == Min(Length(chunk), Highest(BackwardLoud(chunk)) + 400)
               b == BurstStart(chunk)
           IN /\ chunk' = Slice(chunk, s, e)
              /\ s <= b /\ b + 1600 <= e ]_vars

\* a single-burst candidate has been trimmed at both ends
C8_Witness ==
  /\ cons_pc \in {"transcribe", "while"}
  /\ Len(windows) = 1 /\ SingleBurst(windows[1].w)
  /\ chunk # <<>>
  /\ FirstPos(chunk) > FirstPos(windows[1].w)
  /\ EndPos(chunk) < EndPos(windows[1].w)

\* -- C9 ----------------------------------------------------------------------
Active == m_running /\ m_capturing
StartStep ==
  \/ cmd_pc = "read" /\ cmd_pc' = "start_capture"
  \/ cmd_pc = "start_capture" /\ cmd_pc' = "read"

\* C9: a start command received while a session is active creates no thread,
\* does not clear the shared buffer and does not touch the stop flags; at any
\* time at most one capture thread and one consumer thread are alive.
C9_StartWhileActive ==
  [][ /\ (StartStep /\ Active) =>
           UNCHANGED <<m_audioBuffer, m_running, m_capturing, m_shouldStop,
                       captureThreads, consumerThreads, cap_pc, cons_pc>>
      /\ captureThreads' <= 1 /\ consumerThreads' <= 1 ]_vars

\* the start handler is half way through a start received while both threads
\* were running and samples were buffered
C9_Witness ==
  /\ cmd_pc = "start_capture" /\ ncmds >= 2
  /\ Active /\ captureThreads = 1 /\ consumerThreads = 1
  /\ m_audioBuffer # <<>>

\* -- C10 ---------------------------------------------------------------------
\* C10: once the Audio Source has failed on the packet-size query or on the
\* buffer fetch, the capture loop makes no further call to it before its thread
\* ends (calledAfterFatal records such a call).
C10_FatalEndsLoop ==
  fatal => (~calledAfterFatal /\ cap_pc \notin {"query", "getbuf", "release", "query2"})

\* -- C11 ---------------------------------------------------------------------
\* the start handler finishes in this step
StartDone == cmd_pc = "start_capture" /\ cmd_pc' = "read"

\* C11: start never reports success, and "started" is never written, while no
\* capture thread is running: after the capture loop has ended on an Audio
\* Source failure the next start fails or launches a new capture thread.
C11_StartedMeansCapturing ==
  [][ (StartDone /\ lastEvent' = "started") =>
        (captureThreads' = 1 /\ cap_pc' \notin {"none", "done"}) ]_vars

\* -- C12 ---------------------------------------------------------------------
\* C12: when start fails because the Audio Source cannot be started, an error
\* event is written, no "started" event, and the session stays Idle: neither
\* the capture thread nor the consumer thread is running afterwards.
C12_FailedStartStaysIdle ==
  [][ (StartDone /\ ~m_capturing') =>
        /\ lastEvent' = "error"
        /\ captureThreads' = 0
        /\ consumerThreads' = 0 /\ ~m_running' ]_vars

\* -- C13 ---------------------------------------------------------------------
\* the capture thread is inside the inner loop draining the packets of a pass
Draining == cap_pc \in {"getbuf", "callback", "release", "query2"}

\* every drain pass ends: the Audio Source eventually reports an empty queue
\* (or fails)
PassesEnd == []<>(~Draining)

\* AudioCapture::stop's join returns
JoinReturns == (cmd_pc = "join_capture") ~> (cmd_pc = "stop_whisper")

\* once the stop flag is set, the check of line 160 starts no further pass
NoNewPass ==
  [][ (cap_pc = "loop" /\ cap_pc' # "loop" /\ m_shouldStop) => cap_pc' = "done" ]_vars

C14_StopReturns == (cmd_pc = "join_whisper") ~> (cmd_pc = "read")

\* the consumer blocked in wait_for after m_running was cleared and notify_all
\* was issued
C14_Witness ==
  cmd_pc = "join_whisper" /\ ~m_running /\ cons_pc = "blocked"

\* -- C18 ---------------------------------------------------------------------
Idle == ~m_capturing /\ ~m_running
\* a step of the stop handler that calls AudioCapture::stop or
\* WhisperWrapper::stop (the steps in which a join returns are not among them)
StopStep ==
  \/ cmd_pc = "read" /\ cmd_pc' \in {"join_capture", "stop_whisper"}
  \/ cmd_pc = "stop_whisper" /\ cmd_pc' # cmd_pc

\* C18: a stop command received while the session is Idle joins no thread and
\* leaves the capture flags, the running flag and the shared buffer unchanged;
\* it ends with the "stopped" event and the session still Idle.
C18_IdleStopNoOp ==
  [][ (StopStep /\ Idle) =>
        /\ cmd_pc' \notin {"join_capture", "join_whisper"}
        /\ UNCHANGED <<m_capturing, m_shouldStop, m_running, m_audioBuffer,
                       captureThreads, consumerThreads, cap_pc, cons_pc>>
        /\ (cmd_pc' = "read" => lastEvent' = "stopped") ]_vars

\* two stop commands have been handled and no session was ever started
C18_Witness ==
  /\ cmd_pc = "read" /\ ncmds = 2 /\ session = 0
  /\ lastEvent = "stopped" /\ Idle

\* -- C20 ---------------------------------------------------------------------
\* transcribe returns in this step
TranscribeStep == cons_pc = "transcribe" /\ cons_pc' # "transcribe"

\* C20: when the Transcription Engine fails or returns empty text, no result
\* event is written for the window and the consumer goes on with its loop; the
\* buffer is where the extraction left it, whatever the engine returned.
C20_EmptyResultDropped ==
  [][ TranscribeStep =>
        /\ cons_pc' = "while" /\ consumerThreads' = consumerThreads
        /\ UNCHANGED <<m_audioBuffer, windows, m_running>>
        /\ (lastText' = "" => lastEvent' = lastEvent)
        /\ (lastText' # "" => lastEvent' = "final") ]_vars

\* one start command, no result event since, and the second window dispatched
\* has come back empty like the first
C20_Witness ==
  /\ ncmds = 1 /\ lastEvent = "started"
  /\ engineCalls = 2 /\ lastText = "" /\ cons_pc = "while"

\* -- C15 ---------------------------------------------------------------------
\* what a newly built resampler returns for the block of the last call
FreshCall == process(NoState, rsTrace.block, Len(rsTrace.block) \div m_inputChannels)

\* C15: a session begins with a reset resampler (phase 0, last sample 0), and
\* its first process call returns what a newly built resampler returns and
\* leaves the state it leaves, whatever the sessions before it processed.
C15_FreshResampler ==
  /\ (rsTrace.alive /\ rsTrace.calls = 0) => resampler = NoState
  /\ rsTrace.calls = 1 =>
       /\ rsTrace.before = NoState
       /\ rsTrace.output = FreshCall.output
       /\ (rsTrace.alive => resampler = FreshCall.state)

\* the first call of a second session whose predecessor ended with a phase
\* that would have changed the output of this call
C15_Witness ==
  /\ rsTrace.session = 2 /\ rsTrace.alive /\ rsTrace.calls = 1
  /\ rsTrace.stale.m_fractionalPosition # 0
  /\ process(rsTrace.stale, rsTrace.block,
             Len(rsTrace.block) \div m_inputChannels).output # rsTrace.output

\* -- C16 ---------------------------------------------------------------------
\* C16: the outputs of the process calls of a session, concatenated, are the
\* output of one process call of a new resampler over the whole stream.
C16_Continuity ==
  rsTrace.calls >= 1 =>
    rsTrace.outputs =
      process(NoState, rsTrace.stream, Len(rsTrace.stream) \div m_inputChannels).output

\* -- C17 ---------------------------------------------------------------------
\* C17: with the source rate equal to the target rate a process call returns
\* one sample per frame, the average of the frame's channels, and leaves the
\* phase and the last sample as they were.
C17_Identity ==
  (m_inputSampleRate = outputSampleRate /\ rsTrace.calls >= 1) =>
    /\ Len(rsTrace.output) * m_inputChannels = Len(rsTrace.block)
    /\ \A i \in 1 .. Len(rsTrace.output) :
         rsTrace.output[i] * m_inputChannels =
           ChannelSum(rsTrace.block, i - 1, m_inputChannels)
    /\ (rsTrace.alive => resampler = rsTrace.before)

\* a two-channel block of two frames at 16 kHz whose channels differ in a frame
C17_Witness ==
  /\ m_inputSampleRate = outputSampleRate /\ m_inputChannels = 2
  /\ rsTrace.alive /\ rsTrace.calls >= 1
  /\ Len(rsTrace.block) = 4 /\ rsTrace.block[1] # rsTrace.block[2]
  /\ rsTrace.output[1] = 256

\* -- C19 ---------------------------------------------------------------------
AllOk == startupOk.modelPath /\ startupOk.captureInit /\ startupOk.modelLoad
StartupDone == main_pc \notin {"args", "init_capture", "load_model"}

\* C19: "ready" is written once, before the command loop exists, exactly when
\* the model path is given, capture initialization succeeds and the model
\* loads; otherwise one error event is written, no "ready", no command is
\* read and main returns 1.  A return after the command loop ran is a return
\* of 0 after an exit command.
C19_Startup ==
  /\ readyEvents <= 1 /\ mainErrors <= 1
  /\ StartupDone => (readyEvents = 1 <=> AllOk)
  /\ (StartupDone /\ ~AllOk) =>
       /\ mainErrors = 1 /\ readyEvents = 0
       /\ ncmds = 0 /\ cmd_pc = "none"
       /\ main_pc = "exited" /\ exitCode = 1
  /\ readyEvents = 0 => (ncmds = 0 /\ cmd_pc = "none")
  /\ (StartupDone /\ AllOk) =>
       /\ mainErrors = 0
       /\ exitCode \in {-1, 0}
       /\ exitCode = 0 => (g_shouldExit /\ cmd_pc = "returned")
  /\ main_pc = "exited" <=> exitCode # -1

\* ready, a start command, an exit command, and main() has returned 0 with
\* both threads joined
C19_Witness ==
  /\ main_pc = "exited" /\ exitCode = 0
  /\ readyEvents = 1 /\ mainErrors = 0
  /\ ncmds = 2 /\ session = 1
  /\ captureThreads = 0 /\ consumerThreads = 0

\* -- C21 ---------------------------------------------------------------------
\* C21: the consumer holds m_mutex only inside the block of lines 101-129; while
\* it trims or the Transcription Engine runs the mutex is free, and an
\* addAudioChunk of the capture thread can take it and append.
C21_ProducerNotBlocked ==
  /\ mutex = "consumer" => cons_pc \in {"wait", "check"}
  /\ cons_pc \in {"process", "transcribe"} => mutex = "free"
  /\ (cons_pc = "transcribe" /\ cap_pc = "callback") => ENABLED CapCallback

\* a window is with the Transcription Engine and the capture thread arrives at
\* addAudioChunk with a chunk while the wrapper is running
C21_Witness ==
  /\ cons_pc = "transcribe" /\ m_running
  /\ cap_pc = "callback" /\ outputSamples.n > 0

\* -- C22 ---------------------------------------------------------------------
\* frames of the block of the last process call
LastFrames == Len(rsTrace.block) \div m_inputChannels

\* the read position at which the loop of the last call stopped, in 1 / RatioDen
FinalPosition ==
  Interpolate(Mono(rsTrace.block, LastFrames), LastFrames,
              rsTrace.before.m_fractionalPosition, <<>>).position

\* C22: the carried phase p satisfies 0 <= p < ratio after construction and
\* after every process call, and after a call it is the final read position
\* less the number of frames of the block.
C22_PhaseInRange ==
  /\ resampler.m_fractionalPosition >= 0
  /\ resampler.m_fractionalPosition < RatioNum
  /\ (rsTrace.alive /\ rsTrace.calls >= 1) =>
       resampler.m_fractionalPosition = FinalPosition - LastFrames * RatioDen

\* a block shorter than the carried phase: the call reads no frame, returns
\* nothing and still carries a phase
C22_Witness ==
  /\ rsTrace.alive /\ rsTrace.calls >= 2
  /\ rsTrace.before.m_fractionalPosition >= LastFrames * RatioDen
  /\ rsTrace.output = <<>>
  /\ resampler.m_fractionalPosition > 0

\* -- C29 ---------------------------------------------------------------------
\* the output positions k * ratio that lie before frame T
OutputPositions(T) == {k \in 0 .. T * RatioDen : k * RatioNum < T * RatioDen}

\* C29: however the stream of a session is split into process calls, the
\* number of samples returned in all is the number of k >= 0 with
\* k * ratio < T, T the number of frames handed in; for 48000 -> 16000 that
\* is ceil(T / 3).
C29_OutputCount ==
  rsTrace.calls >= 1 =>
    /\ Len(rsTrace.outputs) = Cardinality(OutputPositions(FramesSeen))
    /\ m_inputSampleRate = 48000 => Len(rsTrace.outputs) = CeilDiv(FramesSeen, 3)

\* three frames at 24000 Hz in two or more calls, the last one entered with a
\* carried phase that is not zero
C29_Witness ==
  /\ m_inputSampleRate = 24000 /\ rsTrace.alive
  /\ rsTrace.calls >= 2 /\ FramesSeen = 3
  /\ rsTrace.before.m_fractionalPosition > 0
  /\ Len(rsTrace.outputs) = 2

\* -- C25 ---------------------------------------------------------------------
\* the capture thread is inside captureLoop
CaptureAlive == cap_pc \notin {"none", "done"}

\* the step of CapCallback for a chunk that is not empty
EmitStep == cap_pc = "callback" /\ outputSamples.n > 0 /\ cap_pc' = "release"

\* C25: whatever start, stop and exit commands are read, the wrapper is running
\* for as long as the capture thread is inside captureLoop, so every non-empty
\* chunk the loop emits passes the check of addAudioChunk and is appended.
C25_NoChunkDropped ==
  /\ [](CaptureAlive => m_running)
  /\ [][EmitStep => /\ total' = total + outputSamples.n
                    /\ Size(m_audioBuffer') = Size(m_audioBuffer) + outputSamples.n]_vars

\* AudioCapture::stop waits for the thread, which is just past addAudioChunk;
\* every sample of the session is in the buffer
C25_Witness ==
  /\ cmd_pc = "join_capture" /\ m_shouldStop
  /\ cap_pc = "release" /\ m_running
  /\ total > 0 /\ Size(m_audioBuffer) = total - sessStart

\* -- C26 ---------------------------------------------------------------------
\* "stopped" is the last event written and no start command was read since
Stopped == lastEvent = "stopped" /\ cmd_pc # "start_capture"

\* C26: from a "stopped" event until the next start command is read, no worker
\* thread runs and no result event is written: the event that follows
\* "stopped" is written by the start handler.
C26_QuietAfterStopped ==
  /\ [](Stopped => /\ captureThreads = 0 /\ consumerThreads = 0
                   /\ cap_pc = "none" /\ cons_pc = "none"
                   /\ ~m_capturing /\ ~m_running)
  /\ [][(lastEvent = "stopped" /\ lastEvent' # "stopped") =>
          (cmd_pc = "start_capture" /\ lastEvent' \in {"started", "error"})]_vars

\* "stopped" written after a session in which a window went to the
\* Transcription Engine; both threads were joined
C26_Witness ==
  /\ lastEvent = "stopped" /\ cmd_pc = "read"
  /\ session = 1 /\ engineCalls >= 1 /\ Len(windows) >= 1
  /\ captureThreads = 0 /\ consumerThreads = 0

\* -- C28 ---------------------------------------------------------------------
\* every sample of v was appended in the current session
OfThisSession(v) == \A k \in 1 .. Len(v) : v[k].lo >= sessStart

\* C28: a window of a session holds only samples appended in that session, and
\* so does the buffer while the session runs: a start that begins a session
\* leaves the buffer empty, whatever the consumer of the session before left.
C28_NoCarryOver ==
  /\ [](/\ \A i \in 1 .. Len(windows) :
             windows[i].sess = session => OfThisSession(windows[i].w)
        /\ m_running => OfThisSession(m_audioBuffer))
  /\ [][session' # session => m_audioBuffer' = <<>>]_vars

\* the first session left 4000 samples in the buffer; the first window of the
\* second session begins with the first sample appended after the second start
C28_Witness ==
  /\ session = 2 /\ sessStart = 4000
  /\ Len(windows) = 1 /\ windows[1].sess = 2
  /\ windows[1].w[1].lo = sessStart

\* -- C23 ---------------------------------------------------------------------
\* ReleaseBuffer is called in this step
ReleaseStep == cap_pc = "release" /\ cap_pc' # "release"

\* C23: the Audio Source has a buffer lent exactly from a successful GetBuffer
\* to the ReleaseBuffer that follows it, which passes the frame count GetBuffer
\* gave, also for a packet of zero frames or of an unrecognised encoding; so
\* GetBuffer is never called, and the loop never left, with a buffer lent.
C23_BufferProtocol ==
  /\ [](/\ heldBuffer # -1 <=> cap_pc \in {"callback", "release"}
        /\ heldBuffer # -1 => numFramesAvailable = heldBuffer)
  /\ [][ReleaseStep => (numFramesAvailable = heldBuffer /\ heldBuffer' = -1)]_vars

\* a packet of an unrecognised encoding: nothing was resampled, and its buffer
\* is about to be released with its frame count
C23_Witness ==
  /\ cap_pc = "release" /\ ~fmtKnown
  /\ heldBuffer > 0 /\ numFramesAvailable = heldBuffer
  /\ total = 0 /\ npackets >= 1

\* -- C24 ---------------------------------------------------------------------
\* an extraction happens in this step
ExtractStep == Len(windows') = Len(windows) + 1

\* C24: whatever duration setChunkDuration stored, the overlap is shorter than
\* the window, an extraction of the running wrapper erases the window length
\* less the overlap, a positive number of samples, and no window is extracted
\* a second time.
C24_WindowAdvances ==
  /\ [](overlap < ChunkSamplesNow)
  /\ [][ExtractStep =>
          /\ ChunkSamplesNow - overlap > 0
          /\ Size(m_audioBuffer') = Size(m_audioBuffer) - (ChunkSamplesNow - overlap)]_vars
  /\ [](\A i \in 1 .. Len(windows) - 1 : windows[i].w # windows[i + 1].w)

\* -- C27 ---------------------------------------------------------------------
\* C27: once main() has begun its shutdown, after an exit command or a signal,
\* the command thread is not inside a start or stop handler and enters none.
C27_TeardownExclusive == Teardown => ~InHandler

====
